---- MODULE Spec2Model ----
(***************************************************************************)
(* Bar-by-bar trade simulation of TradeXAI (src/backtest.py run_backtest)  *)
(* over the rows produced by the signal stage (src/strategy.py).           *)
(*                                                                         *)
(* Prices, ATR, equity and P&L are exact integers (fixed-point units), so  *)
(* the arithmetic of the code is modelled without floating-point rounding. *)
(* The rows of the frame are read in index order; a row is drawn when the  *)
(* loop reads it (df.iloc[i]) and the previous one is the row read before. *)
(***************************************************************************)
EXTENDS Integers, Sequences, FiniteSets

\* ------------------------------------------------------------------ bounds
\* Largest number of rows of the input frame (len(df) ranges over 0..MaxBars).
MaxBars == 4
\* Largest distance between the timestamps of two consecutive rows.
MaxGap == 1
\* Largest number of higher-timeframe buckets of a frame, and of base bars
\* in one bucket, when the HTF alignment is studied.
MaxBuckets == 2
MaxBucketLen == 2

\* Timestamp units per calendar day; the session covers the units
\* SessionStart..SessionEnd of every day (the last unit of a day is outside).
DayLen == 4
SessionStart == 0
SessionEnd == 2

\* Values the input columns are drawn from.
Opens == {5000}
Highs == {5000, 6500, 9500}
Lows == {500, 3500, 5000}
Closes == {3500, 5000, 6500}
Atrs == {0, 1250}
Ema9s == {5000}
MacdHists == {-1, 0, 1}
Volumes == {100}
VolSmas == {60, 100}
\* (close, macd_hist) pairs: the close off ema9 or the histogram off 0, not both
CloseHists == { x \in Closes \X MacdHists : x[1] \in Ema9s \/ x[2] = 0 }

\* --------------------------------------------------------- program constants
CONTRACT_TICK_VALUE == 10
initial_equity == 100000
\* daily_loss_limit_pct = 0.15 as the fraction 15 / 100
DailyLossNum == 15
DailyLossDen == 100
\* atr_mult = 1.2 as the fraction 6 / 5
AtrMultNum == 6
AtrMultDen == 5
\* reward-to-risk multiple of the target
RewardRisk == 3
\* vol_mult = 1.5 as the fraction 3 / 2
VolMultNum == 3
VolMultDen == 2

\* pc, n (len(df)) and i drive the loop; row, prev, daily_start, daily_pnl,
\* equity, can_open, position and trades are the locals of run_backtest;
\* summary holds the metrics computed after the loop. History variables:
\* held is the position at the start of the iteration that read row, opens
\* the positions created so far. sig is the state of generate_signals when
\* it is studied on its own: its input and the columns it has computed.
VARIABLES pc, n, i, row, prev, daily_start, daily_pnl, equity, can_open,
          position, trades, summary, held, opens, sig

vars == <<pc, n, i, row, prev, daily_start, daily_pnl, equity, can_open,
          position, trades, summary, held, opens, sig>>

\* position = None
None == [side |-> "None"]
\* np.nan
NaN == [nan |-> TRUE]
\* -np.inf
NegInf == [inf |-> "-"]
\* no row read yet / no summary computed yet
NoRow == [name |-> -1]
NoSummary == [computed |-> FALSE]
\* generate_signals not under study
NoSig == [in |-> <<>>, out |-> <<>>, computed |-> FALSE]

Abs(x) == IF x < 0 THEN -x ELSE x
\* the exception of a lookup of a column the frame does not have
KeyError == [computed |-> FALSE, raised |-> "KeyError"]

\* ------------------------------------------------------------ signal stage
\* row.name.date(): the calendar day of a timestamp
Date(ts) == ts \div DayLen

\* in_ny_session_index: time of day inside [start, end], both inclusive
InNy(ts) == (ts % DayLen) >= SessionStart /\ (ts % DayLen) <= SessionEnd

\* df['signal'] = 0, then 1 where long_setup, then -1 where short_setup
Signal(long_setup, short_setup) ==
    IF short_setup THEN -1 ELSE IF long_setup THEN 1 ELSE 0

\* vol_ok: volume > vol_sma * vol_mult
VolOk(volume, vol_sma) == VolMultDen * volume > VolMultNum * vol_sma

\* faulty variant of MkRow: the setups do not test the session flag
MkRowNoSessionFilter(ts, o, h, l, c, a, e, m, v, vs, long_rest, short_rest) ==
    [name |-> ts, open |-> o, high |-> h, low |-> l, close |-> c,
     atr |-> a, ema9 |-> e, macd_hist |-> m,
     in_ny |-> InNy(ts),
     signal |-> Signal(VolOk(v, vs) /\ long_rest, VolOk(v, vs) /\ short_rest),
     ema9_break_long |-> c < e,
     ema9_break_short |-> c > e,
     macd_flip_long |-> m < 0,
     macd_flip_short |-> m > 0]

\* One row of the frame generate_signals returns, with the columns that
\* run_backtest reads; v and vs are its volume and vol_sma, long_rest and
\* short_rest the conjunctions of the five filters other than the session
\* and the volume one.
MkRow(ts, o, h, l, c, a, e, m, v, vs, long_rest, short_rest) ==
    [name |-> ts, open |-> o, high |-> h, low |-> l, close |-> c,
     atr |-> a, ema9 |-> e, macd_hist |-> m,
     in_ny |-> InNy(ts),
     signal |-> Signal(InNy(ts) /\ VolOk(v, vs) /\ long_rest,
                       InNy(ts) /\ VolOk(v, vs) /\ short_rest),
     ema9_break_long |-> c < e,
     ema9_break_short |-> c > e,
     macd_flip_long |-> m < 0,
     macd_flip_short |-> m > 0]

\* The values the columns of one bar can take together: low <= open, close
\* <= high; a rolling mean of true ranges that is 0 needs a bar without
\* range. The last two components are the conjunctions of the five filters
\* of the long and of the short setup other than in_ny and vol_ok.
BarShapes ==
    { x \in Opens \X Highs \X Lows \X Closes \X Atrs \X Ema9s
             \X MacdHists \X Volumes \X VolSmas \X BOOLEAN \X BOOLEAN :
        /\ x[3] <= x[1] /\ x[1] <= x[2]
        /\ x[3] <= x[4] /\ x[4] <= x[2]
        /\ <<x[4], x[7]>> \in CloseHists
        /\ (x[5] = 0 => x[2] = x[3]) }

\* The rows a frame can hold at timestamp ts. Each row is drawn from the
\* values the columns can take on one bar; the indicator recurrences that
\* link the columns of distant bars are not part of this model.
RowsAt(ts) ==
    { MkRow(ts, x[1], x[2], x[3], x[4], x[5], x[6], x[7], x[8], x[9],
            x[10], x[11]) : x \in BarShapes }

\* The rows that can follow row last in the frame: a later timestamp, and
\* (utils.atr) an ATR of 0 needs a true range of 0, which leaves no gap
\* between the bar and the previous close, on every bar of its window; the
\* window of the first atr_len rows is the whole prefix, so the ATR of the
\* row before is 0 as well.
RowsAfter(last) ==
    { r \in UNION { RowsAt(ts) : ts \in (last.name + 1)..(last.name + MaxGap) } :
        r.atr = 0 => (r.high = last.close /\ last.atr = 0) }

\* --------------------------------------------------------------- simulator
\* faulty variant of CanOpen: the daily loss limit never blocks
CanOpenAlways(dpnl, eq) == TRUE

\* can_open: lines 43-47
CanOpen(dpnl, eq) == ~(dpnl * DailyLossDen <= -(DailyLossNum * eq))

\* faulty variant of StopDistance: the ATR multiplier is dropped
StopDistanceNoMult(a) == a

\* atr_mult * row['atr']
StopDistance(a) == (AtrMultNum * a) \div AtrMultDen

\* faulty variant of Pnl: the LONG formula is used for both sides
PnlLongFormula(side, entry_price, exit_price, qty) ==
    (exit_price - entry_price) * qty * CONTRACT_TICK_VALUE

\* realized P&L of a close
Pnl(side, entry_price, exit_price, qty) ==
    IF side = "LONG"
    THEN (exit_price - entry_price) * qty * CONTRACT_TICK_VALUE
    ELSE (entry_price - exit_price) * qty * CONTRACT_TICK_VALUE

\* faulty variant of ExitReason: the session close carries the label of the
\* technical exit
ExitReasonSessionMislabelled(pos, r, pv) ==
    IF pos.side = "LONG"
    THEN IF r.low <= pos.stop THEN "stop"
         ELSE IF r.high >= pos.tp THEN "tp"
         ELSE IF r.ema9_break_long \/ r.macd_flip_long THEN "technical_exit"
         ELSE IF ~r.in_ny /\ pv.in_ny THEN "technical_exit"
         ELSE "none"
    ELSE IF r.high >= pos.stop THEN "stop"
         ELSE IF r.low <= pos.tp THEN "tp"
         ELSE IF r.ema9_break_short \/ r.macd_flip_short THEN "technical_exit"
         ELSE IF ~r.in_ny /\ pv.in_ny THEN "technical_exit"
         ELSE "none"

\* faulty variant of ExitReason: the target is tested before the stop
ExitReasonTargetFirst(pos, r, pv) ==
    IF pos.side = "LONG"
    THEN IF r.high >= pos.tp THEN "tp"
         ELSE IF r.low <= pos.stop THEN "stop"
         ELSE IF r.ema9_break_long \/ r.macd_flip_long THEN "technical_exit"
         ELSE IF ~r.in_ny /\ pv.in_ny THEN "session_close"
         ELSE "none"
    ELSE IF r.low <= pos.tp THEN "tp"
         ELSE IF r.high >= pos.stop THEN "stop"
         ELSE IF r.ema9_break_short \/ r.macd_flip_short THEN "technical_exit"
         ELSE IF ~r.in_ny /\ pv.in_ny THEN "session_close"
         ELSE "none"

\* The exit rule applied to a held position on row r (pv the row before):
\* the first whose condition holds, "none" when none does.
ExitReason(pos, r, pv) ==
    IF pos.side = "LONG"
    THEN IF r.low <= pos.stop THEN "stop"
         ELSE IF r.high >= pos.tp THEN "tp"
         ELSE IF r.ema9_break_long \/ r.macd_flip_long THEN "technical_exit"
         ELSE IF ~r.in_ny /\ pv.in_ny THEN "session_close"
         ELSE "none"
    ELSE IF r.high >= pos.stop THEN "stop"
         ELSE IF r.low <= pos.tp THEN "tp"
         ELSE IF r.ema9_break_short \/ r.macd_flip_short THEN "technical_exit"
         ELSE IF ~r.in_ny /\ pv.in_ny THEN "session_close"
         ELSE "none"

\* faulty variant of ExitPrice: a stop or target exit fills at the bar's extreme
ExitPriceAtExtreme(pos, r, reason) ==
    IF reason = "stop" THEN (IF pos.side = "LONG" THEN r.low ELSE r.high)
    ELSE IF reason = "tp" THEN (IF pos.side = "LONG" THEN r.high ELSE r.low)
    ELSE r.close

\* exit_price of the rule applied
ExitPrice(pos, r, reason) ==
    IF reason = "stop" THEN pos.stop
    ELSE IF reason = "tp" THEN pos.tp
    ELSE r.close

\* trades.append({**position, 'exit_price', 'exit_time', 'pnl', 'reason'})
Trade(pos, exit_price, exit_time, reason) ==
    [side |-> pos.side, entry_price |-> pos.entry_price, stop |-> pos.stop,
     tp |-> pos.tp, qty |-> pos.qty, entry_time |-> pos.entry_time,
     exit_price |-> exit_price, exit_time |-> exit_time,
     pnl |-> Pnl(pos.side, pos.entry_price, exit_price, pos.qty),
     reason |-> reason]

\* the position opened on row r by its signal (None when the signal is 0)
Entry(r) ==
    IF r.signal = 1
    THEN LET stop == r.open - StopDistance(r.atr)
         IN [side |-> "LONG", entry_price |-> r.open, stop |-> stop,
             tp |-> r.open + RewardRisk * (r.open - stop), qty |-> 1,
             entry_time |-> r.name]
    ELSE IF r.signal = -1
    THEN LET stop == r.open + StopDistance(r.atr)
         IN [side |-> "SHORT", entry_price |-> r.open, stop |-> stop,
             tp |-> r.open - RewardRisk * (stop - r.open), qty |-> 1,
             entry_time |-> r.name]
    ELSE None

\* faulty variant of NewDay: the date change is never seen
NewDayNever(r, marker) == FALSE

\* line 38: the date of the row differs from the stored marker
NewDay(r, marker) == Date(r.name) # marker

\* faulty variant of MayEnter: the entry block no longer tests for a held position
MayEnterWhileHeld(pos, co) == co

\* line 136: entries only with no position and can_open
MayEnter(pos, co) == pos = None /\ co

\* faulty variant of EndOfData: the position left open is dropped without a trade
EndOfDataSkipped(pos, last) == <<>>

\* faulty variant of EndOfData: the forced close fills at the last bar's open
EndOfDataAtOpen(pos, last) ==
    IF pos # None
    THEN <<Trade(pos, last.open, last.name, "end_of_data")>>
    ELSE <<>>

\* lines 153-159: the trade appended after the loop for a position still open
EndOfData(pos, last) ==
    IF pos # None
    THEN <<Trade(pos, last.close, last.name, "end_of_data")>>
    ELSE <<>>

\* trades_df['pnl'].sum()
SumPnl(ts) ==
    LET RECURSIVE Sum(_)
        Sum(k) == IF k = 0 THEN 0 ELSE ts[k].pnl + Sum(k - 1)
    IN Sum(Len(ts))

\* a / b of two numpy floats with a >= 0: a ratio with a non-zero divisor is
\* kept as its numerator and denominator; a zero divisor raises nothing and
\* yields nan for 0 / 0 and an infinity for a > 0. The divisor of line 168
\* is the negation of a sum that is 0.0, that is -0.0, so the infinity is
\* the negative one.
FloatDiv(a, b) ==
    IF b # 0 THEN [num |-> a, den |-> b]
    ELSE IF a = 0 THEN NaN ELSE NegInf

\* lines 162-168: the summary metrics of the ledger; np.nan is NaN. The
\* frame built from an empty list of trades has no column, so line 165
\* (trades_df['pnl']) raises KeyError for the empty ledger: only line 164
\* tests for it. The else branches of lines 167 and 168 are kept as written.
Summary(ts) ==
    IF Len(ts) = 0 THEN KeyError
    ELSE
    LET wins == SelectSeq(ts, LAMBDA t : t.pnl > 0)
        losses == SelectSeq(ts, LAMBDA t : t.pnl <= 0)
    IN [computed |-> TRUE,
        total_pnl |-> IF Len(ts) # 0 THEN SumPnl(ts) ELSE 0,
        win_rate |-> IF Len(ts) > 0
                     THEN FloatDiv(Len(wins), Len(ts)) ELSE NaN,
        profit_factor |-> IF Len(losses) > 0
                          THEN FloatDiv(SumPnl(wins), -SumPnl(losses))
                          ELSE NaN]

Init ==
    /\ pc = "start"
    /\ n \in 0..MaxBars
    /\ i = 0
    /\ row = NoRow
    /\ prev = NoRow
    /\ daily_start = -1
    /\ daily_pnl = 0
    /\ equity = initial_equity
    /\ can_open = TRUE
    /\ position = None
    /\ trades = <<>>
    /\ summary = NoSummary
    /\ held = None
    /\ opens = <<>>
    /\ sig = NoSig

\* lines 24-31: df.index[0] raises IndexError on an empty frame
Start ==
    /\ pc = "start"
    /\ IF n = 0
       THEN /\ pc' = "fault"
            /\ UNCHANGED <<row, daily_start, i>>
       ELSE \E r \in UNION { RowsAt(ts) : ts \in 0..(DayLen - 1) } :
              /\ row' = r
              /\ daily_start' = Date(r.name)
              /\ i' = 1
              /\ pc' = "loop"
    /\ UNCHANGED <<n, prev, daily_pnl, equity, can_open, position, trades,
                   summary, held, opens, sig>>

\* faulty variant of Iteration: a close does not end the iteration, the
\* entry block runs on the same bar
IterationNoContinue(pos, r, pv, co) ==
    LET reason == IF pos = None THEN "none" ELSE ExitReason(pos, r, pv)
        closed == IF reason # "none"
                  THEN <<Trade(pos, ExitPrice(pos, r, reason), r.name, reason)>>
                  ELSE <<>>
        after == IF reason # "none" THEN None ELSE pos
    IN IF MayEnter(after, co) /\ Entry(r) # None
       THEN [closed |-> closed, opened |-> <<Entry(r)>>, position |-> Entry(r)]
       ELSE [closed |-> closed, opened |-> <<>>, position |-> after]

\* faulty variant of Iteration: the entry block runs before the exit rules,
\* which then see the position opened on this bar
IterationEntryFirst(pos, r, pv, co) ==
    LET enters == MayEnter(pos, co) /\ Entry(r) # None
        cur == IF enters THEN Entry(r) ELSE pos
        opened == IF enters THEN <<Entry(r)>> ELSE <<>>
        reason == IF cur = None THEN "none" ELSE ExitReason(cur, r, pv)
    IN IF reason # "none"
       THEN [closed |-> <<Trade(cur, ExitPrice(cur, r, reason), r.name, reason)>>,
             opened |-> opened, position |-> None]
       ELSE [closed |-> <<>>, opened |-> opened, position |-> cur]

\* lines 50-150: what one iteration does with the position pos on row r (pv
\* the row before, co the value of can_open): the trade appended, the
\* position created and the position left. A close ends the iteration
\* (continue), so the entry block is reached only when no rule applied.
Iteration(pos, r, pv, co) ==
    LET reason == IF pos = None THEN "none" ELSE ExitReason(pos, r, pv)
    IN IF reason # "none"
       THEN [closed |-> <<Trade(pos, ExitPrice(pos, r, reason), r.name, reason)>>,
             opened |-> <<>>, position |-> None]
       ELSE IF MayEnter(pos, co) /\ Entry(r) # None
       THEN [closed |-> <<>>, opened |-> <<Entry(r)>>, position |-> Entry(r)]
       ELSE [closed |-> <<>>, opened |-> <<>>, position |-> pos]

\* lines 33-150: one iteration of the loop, on row i of the frame
Bar ==
    /\ pc = "loop"
    /\ i < n
    /\ \E r \in RowsAfter(row) :
         LET pv == [in_ny |-> row.in_ny]
             reset == NewDay(r, daily_start)
             dpnl == IF reset THEN 0 ELSE daily_pnl
             co == CanOpen(dpnl, equity)
             it == Iteration(position, r, pv, co)
             pnl == IF it.closed # <<>> THEN it.closed[1].pnl ELSE 0
         IN /\ row' = r
            /\ prev' = pv
            /\ i' = i + 1
            /\ daily_start' = IF reset THEN Date(r.name) ELSE daily_start
            /\ can_open' = co
            /\ held' = position
            /\ trades' = trades \o it.closed
            /\ equity' = equity + pnl
            /\ daily_pnl' = dpnl + pnl
            /\ position' = it.position
            /\ opens' = opens \o it.opened
    /\ UNCHANGED <<pc, n, summary, sig>>

\* lines 152-168: forced close of a position left open, then the summary;
\* the run ends in a fault when the summary raises
Finish ==
    /\ pc = "loop"
    /\ i >= n
    /\ LET eod == EndOfData(position, row)
       IN /\ trades' = trades \o eod
          /\ equity' = IF eod # <<>> THEN equity + eod[1].pnl ELSE equity
    /\ summary' = Summary(trades')
    /\ pc' = IF summary' = KeyError THEN "fault" ELSE "done"
    /\ UNCHANGED <<n, i, row, prev, daily_start, daily_pnl, can_open, position,
                   held, opens, sig>>

Next == Start \/ Bar \/ Finish

Spec == Init /\ [][Next]_vars

\* ------------------------------------- run_backtest on flat-volume frames
\* The bars whose volume equals its rolling volume average (vol_sma).
FlatShapes == { x \in BarShapes : x[8] = x[9] }

\* r is a row of a frame in which every bar is such a bar
FlatRow(r) ==
    \E x \in FlatShapes :
      r = MkRow(r.name, x[1], x[2], x[3], x[4], x[5], x[6], x[7], x[8], x[9],
                x[10], x[11])

\* Start and Bar on the rows of such a frame
FlatStart == Start /\ FlatRow(row')

FlatBar == Bar /\ FlatRow(row')

FlatNext == FlatStart \/ FlatBar \/ Finish

\* a non-empty frame
FlatInit == Init /\ n > 0

\* run_backtest(generate_signals(df)) for the non-empty frames df with flat
\* volume
FlatSpec == FlatInit /\ [][FlatNext]_vars

\* ------------------------------------------- generate_signals, bar by bar
\* Indicator values of one bar, as prepare_indicators and the HTF alignment
\* leave them in the frame; hist_before is macd_hist.shift(1), empty on the
\* first bar of the frame (NaN).
IndCloses == {10, 11, 12, 13, 14}
IndEma9s == {10, 14}
IndEma21s == {12}
IndEma60s == {8, 12, 16}
IndEma200Htfs == {9, 12, 15}
IndVwaps == {11, 13}
IndVolumes == {60, 100}
IndAtrs == {0, 1}
IndHistsBefore == {<<>>, <<0>>}

Indicators ==
    [close : IndCloses, ema9 : IndEma9s, ema21 : IndEma21s, ema60 : IndEma60s,
     ema200_htf : IndEma200Htfs, macd_hist_htf : MacdHists, vwap : IndVwaps,
     volume : IndVolumes, vol_sma : IndVolumes, macd_hist : MacdHists,
     hist_before : IndHistsBefore, atr : IndAtrs, in_ny : BOOLEAN]

\* the 1.5 of the pullback filter as the fraction 3 / 2
PullbackNum == 3
PullbackDen == 2

\* lines 67-68
HtfBull(b) == b.close > b.ema200_htf /\ b.macd_hist_htf > 0
HtfBear(b) == b.close < b.ema200_htf /\ b.macd_hist_htf < 0

\* lines 71-72
EmaLongStack(b) == b.ema9 > b.ema21 /\ b.ema21 > b.ema60
EmaShortStack(b) == b.ema9 < b.ema21 /\ b.ema21 < b.ema60

\* lines 76-79; a comparison with the NaN of the first bar is False
VwapLong(b) == b.close > b.vwap
VwapShort(b) == b.close < b.vwap
MacdRising(b) == b.hist_before # <<>> /\ b.macd_hist > b.hist_before[1]
MacdFalling(b) == b.hist_before # <<>> /\ b.macd_hist < b.hist_before[1]

\* lines 82-83
PullbackToEma(b) ==
    \/ (b.close <= b.ema9 /\ b.close >= b.ema21)
    \/ PullbackDen * Abs(b.close - b.ema21) <= PullbackNum * b.atr

\* faulty variant of Setup: the pullback filter is left out
SetupNoPullback(in_ny, htf, stack, vwap_side, vol_ok, macd_dir, pullback) ==
    in_ny /\ htf /\ stack /\ vwap_side /\ vol_ok /\ macd_dir

\* lines 86-87: a setup is the conjunction of its seven filters
Setup(in_ny, htf, stack, vwap_side, vol_ok, macd_dir, pullback) ==
    in_ny /\ htf /\ stack /\ vwap_side /\ vol_ok /\ macd_dir /\ pullback

\* lines 65-92: the filter, setup and signal columns of a bar
SignalColumns(b) ==
    LET vol_ok == VolOk(b.volume, b.vol_sma)
        long_setup == Setup(b.in_ny, HtfBull(b), EmaLongStack(b), VwapLong(b),
                            vol_ok, MacdRising(b), PullbackToEma(b))
        short_setup == Setup(b.in_ny, HtfBear(b), EmaShortStack(b),
                             VwapShort(b), vol_ok, MacdFalling(b),
                             PullbackToEma(b))
    IN [in_ny |-> b.in_ny,
        htf_bull |-> HtfBull(b), htf_bear |-> HtfBear(b),
        ema_long_stack |-> EmaLongStack(b),
        ema_short_stack |-> EmaShortStack(b),
        vol_ok |-> vol_ok,
        vwap_long |-> VwapLong(b), vwap_short |-> VwapShort(b),
        macd_rising |-> MacdRising(b), macd_falling |-> MacdFalling(b),
        pullback_to_ema |-> PullbackToEma(b),
        long_setup |-> long_setup, short_setup |-> short_setup,
        signal |-> Signal(long_setup, short_setup)]

\* the run_backtest variables while generate_signals is studied on its own
Idle ==
    /\ n = 0 /\ i = 0
    /\ row = NoRow /\ prev = NoRow
    /\ daily_start = -1 /\ daily_pnl = 0
    /\ equity = initial_equity /\ can_open = TRUE
    /\ position = None /\ trades = <<>>
    /\ summary = NoSummary
    /\ held = None /\ opens = <<>>

SigInit ==
    /\ pc = "signals"
    /\ Idle
    /\ sig \in { [in |-> b, out |-> <<>>, computed |-> FALSE] : b \in Indicators }

\* generate_signals computes the columns of the bar
Generate ==
    /\ pc = "signals"
    /\ ~sig.computed
    /\ sig' = [sig EXCEPT !.out = SignalColumns(sig.in), !.computed = TRUE]
    /\ UNCHANGED <<pc, n, i, row, prev, daily_start, daily_pnl, equity,
                   can_open, position, trades, summary, held, opens>>

SigNext == Generate

SigSpec == SigInit /\ [][SigNext]_vars

\* ---------------------------------------- generate_signals, HTF alignment
\* params.get('ema200', 200)
Ema200Span == 200

\* Closes of the base bars, and the frames studied: the closes of the base
\* bars grouped by HTF bucket, every bucket holding at least one bar.
HtfCloses == {1, 2, 3}
Buckets == UNION { [1..l -> HtfCloses] : l \in 1..MaxBucketLen }
BucketLists == UNION { [1..m -> Buckets] : m \in 1..MaxBuckets }

\* utils.ema, ewm(span, adjust=False).mean(): the value at index k of the
\* series xs, as an exact fraction. y[1] = x[1];
\* y[k] = alpha * x[k] + (1 - alpha) * y[k-1] with alpha = 2 / (span + 1).
RECURSIVE Ema(_, _, _)
Ema(xs, span, k) ==
    IF k = 1 THEN [num |-> xs[1], den |-> 1]
    ELSE LET y == Ema(xs, span, k - 1)
         IN [num |-> 2 * xs[k] * y.den + (span - 1) * y.num,
             den |-> (span + 1) * y.den]

\* line 50, resample(htf).last(): the last close of every bucket
HtfLast(bs) == [k \in 1..Len(bs) |-> bs[k][Len(bs[k])]]

\* line 51, resample(htf).apply(lambda x: ema(x, 200)[-1]): for every bucket
\* the last value of the EMA of the closes inside that bucket
HtfEma200(bs) == [k \in 1..Len(bs) |-> Ema(bs[k], Ema200Span, Len(bs[k]))]

\* lines 59-61, reindex(df.index, method='ffill'): every base bar gets the
\* value stored under the label of its own bucket
Ema200HtfColumn(bs) ==
    [k \in 1..Len(bs) |-> [j \in 1..Len(bs[k]) |-> HtfEma200(bs)[k]]]

HtfInit ==
    /\ pc = "htf"
    /\ Idle
    /\ sig \in { [in |-> bs, out |-> <<>>, computed |-> FALSE] :
                 bs \in BucketLists }

\* generate_signals computes the ema200_htf column of the frame
AlignHtf ==
    /\ pc = "htf"
    /\ ~sig.computed
    /\ sig' = [sig EXCEPT !.out = Ema200HtfColumn(sig.in), !.computed = TRUE]
    /\ UNCHANGED <<pc, n, i, row, prev, daily_start, daily_pnl, equity,
                   can_open, position, trades, summary, held, opens>>

HtfNext == AlignHtf

HtfSpec == HtfInit /\ [][HtfNext]_vars

\* ------------------------------------------------------------------ claims
\* A bar has been processed and the loop has not been left.
InLoop == pc = "loop" /\ i > 1

\* The position was created on the row just read.
OpenedNow == InLoop /\ position # None /\ position.entry_time = row.name

\* A trade was appended by an exit rule on the row just read.
ClosedNow == InLoop /\ held # None /\ position = None

LastTrade == trades[Len(trades)]

\* the fields a trade copies from its position
PositionOf(t) ==
    [side |-> t.side, entry_price |-> t.entry_price, stop |-> t.stop,
     tp |-> t.tp, qty |-> t.qty, entry_time |-> t.entry_time]

\* C1: at most one position is open after any prefix of the bars: the
\* positions created exceed the trades recorded by at most one, and by one
\* exactly when a position is held; a position is created only on a bar that
\* started with none held; the holding intervals of the ledger's trades, and
\* of the held position, do not overlap in their interiors.
C1_AtMostOnePosition ==
    /\ Len(opens) - Len(trades) \in {0, 1}
    /\ (pc # "done") => ((Len(opens) - Len(trades) = 1) <=> (position # None))
    /\ OpenedNow => held = None
    /\ \A a, b \in 1..Len(trades) :
         a < b => /\ trades[a].entry_time <= trades[a].exit_time
                  /\ trades[a].exit_time <= trades[b].entry_time
    /\ (pc # "done" /\ position # None) =>
         \A a \in 1..Len(trades) : trades[a].exit_time <= position.entry_time

\* C1 witness: a second position is held after a first one was closed.
C1_Witness ==
    /\ InLoop /\ position # None /\ Len(trades) = 1 /\ Len(opens) = 2

\* Conditions of the four exit rules for position p on row r after row pv,
\* read off the row independently of the rule chain.
StopCond(p, r) == IF p.side = "LONG" THEN r.low <= p.stop ELSE r.high >= p.stop
TargetCond(p, r) == IF p.side = "LONG" THEN r.high >= p.tp ELSE r.low <= p.tp
TechCond(p, r) ==
    IF p.side = "LONG" THEN r.ema9_break_long \/ r.macd_flip_long
    ELSE r.ema9_break_short \/ r.macd_flip_short
SessionCond(r, pv) == ~r.in_ny /\ pv.in_ny

\* the trades of the ledger closed on the row with timestamp ts
ClosedAt(ts) == { k \in 1..Len(trades) : trades[k].exit_time = ts }

\* C2: on a bar that starts with a position held, the exit rules are applied
\* in the order stop, target, technical exit, session close, for both sides;
\* only the first matching rule is applied: exactly one trade is appended,
\* with that rule's reason and exit price, and none when no rule matches.
\* (The code labels the target rule 'tp'.)
C2_ExitPriority ==
    (InLoop /\ held # None) =>
      LET stopC == StopCond(held, row)
          tpC == TargetCond(held, row)
          techC == TechCond(held, row)
          sessC == SessionCond(row, prev)
          closedBy(reason, price) ==
              /\ position = None
              /\ Cardinality(ClosedAt(row.name)) = 1
              /\ PositionOf(LastTrade) = held
              /\ LastTrade.exit_time = row.name
              /\ LastTrade.reason = reason
              /\ LastTrade.exit_price = price
      IN IF stopC THEN closedBy("stop", held.stop)
         ELSE IF tpC THEN closedBy("tp", held.tp)
         ELSE IF techC THEN closedBy("technical_exit", row.close)
         ELSE IF sessC THEN closedBy("session_close", row.close)
         ELSE position = held /\ ClosedAt(row.name) = {}

\* C2 witness: the range of a bar reached both the stop and the target of
\* the held position and the trade was closed at the stop.
C2_Witness ==
    /\ InLoop /\ held # None
    /\ StopCond(held, row) /\ TargetCond(held, row)
    /\ held.stop # held.tp
    /\ LastTrade.reason = "stop" /\ LastTrade.exit_price = held.stop

\* C3: a held position is closed by the stop rule on the first bar after its
\* entry whose low (LONG) or high (SHORT) reaches the stop; every stop exit
\* is recorded at the stop level computed when the position was opened and
\* every target exit at the target level computed then; the levels of a held
\* position are those it was opened with.
C3_StopAndTargetLevels ==
    /\ (InLoop /\ held # None /\ StopCond(held, row)) =>
         /\ position = None
         /\ LastTrade.reason = "stop" /\ LastTrade.exit_time = row.name
    /\ \A k \in 1..Len(trades) :
         /\ k <= Len(opens)
         /\ trades[k].reason = "stop" => trades[k].exit_price = opens[k].stop
         /\ trades[k].reason = "tp" => trades[k].exit_price = opens[k].tp
    /\ (pc = "loop" /\ position # None) => position = opens[Len(opens)]
    /\ (InLoop /\ held # None) => held = opens[Len(opens)]

\* C3 witness: a stop exit on a bar whose low went through the stop of a
\* LONG opened at least two bars earlier.
C3_Witness ==
    /\ ClosedNow /\ held.side = "LONG"
    /\ LastTrade.reason = "stop"
    /\ row.low < held.stop
    /\ LastTrade.exit_price = opens[Len(opens)].stop
    /\ LastTrade.exit_time > held.entry_time + 1

\* C4 as stated: the position opened on a bar has the bar's open as entry
\* price, its stop atr_mult x ATR away and its target 3 times as far, the
\* stop strictly below and the target strictly above the entry for LONG,
\* mirrored for SHORT, and quantity 1.
C4_AsStated ==
    OpenedNow =>
      /\ position.entry_price = row.open
      /\ AtrMultDen * Abs(position.stop - position.entry_price)
           = AtrMultNum * row.atr
      /\ Abs(position.tp - position.entry_price)
           = 3 * Abs(position.stop - position.entry_price)
      /\ position.side = "LONG" =>
           position.stop < position.entry_price
           /\ position.tp > position.entry_price
      /\ position.side = "SHORT" =>
           position.stop > position.entry_price
           /\ position.tp < position.entry_price
      /\ position.qty = 1

\* C4 amended: as stated, except that the stop and the target lie strictly
\* on their side of the entry only when atr_mult x ATR > 0; on an entry bar
\* whose ATR is 0 the stop and the target both equal the entry price.
C4_EntryLevels ==
    OpenedNow =>
      /\ position.entry_price = row.open
      /\ AtrMultDen * Abs(position.stop - position.entry_price)
           = AtrMultNum * row.atr
      /\ Abs(position.tp - position.entry_price)
           = 3 * Abs(position.stop - position.entry_price)
      /\ position.side = "LONG" =>
           position.stop <= position.entry_price
           /\ position.tp >= position.entry_price
      /\ position.side = "SHORT" =>
           position.stop >= position.entry_price
           /\ position.tp <= position.entry_price
      /\ (AtrMultNum * row.atr > 0) =>
           position.stop # position.entry_price
           /\ position.tp # position.entry_price
      /\ (AtrMultNum * row.atr = 0) =>
           position.stop = position.entry_price
           /\ position.tp = position.entry_price
      /\ position.qty = 1

\* C4 witness: a SHORT opened on a bar with a positive ATR.
C4_Witness ==
    OpenedNow /\ position.side = "SHORT" /\ row.atr > 0
    /\ position.stop > position.entry_price

\* the sum of the P&L of the first k trades of the ledger
RECURSIVE PnlUpTo(_)
PnlUpTo(k) == IF k = 0 THEN 0 ELSE trades[k].pnl + PnlUpTo(k - 1)

\* C5: running equity is initial_equity plus the P&L of the trades of the
\* ledger, each (exit - entry) * qty * tick value for LONG and
\* (entry - exit) * qty * tick value for SHORT; at the end final equity minus
\* initial equity is the reported total P&L.
C5_EquityIsInitialPlusPnl ==
    /\ equity = initial_equity + PnlUpTo(Len(trades))
    /\ \A k \in 1..Len(trades) :
         LET t == trades[k]
         IN t.pnl = IF t.side = "LONG"
                    THEN (t.exit_price - t.entry_price) * t.qty * 10
                    ELSE (t.entry_price - t.exit_price) * t.qty * 10
    /\ pc = "done" => equity - initial_equity = summary.total_pnl

\* C5 witness: the run ended with a winning LONG and a losing SHORT trade.
C5_Witness ==
    /\ pc = "done" /\ Len(trades) = 2
    /\ trades[1].side = "LONG" /\ trades[1].pnl > 0
    /\ trades[2].side = "SHORT" /\ trades[2].pnl < 0
    /\ equity = initial_equity + trades[1].pnl + trades[2].pnl
    /\ equity # initial_equity

\* C6: every position opened is closed into exactly one trade that carries
\* its side, entry price, stop, target and entry time: the k-th trade is the
\* close of the k-th position opened, no trade precedes its open, and when
\* the run ends there are as many trades as positions opened.
C6_OneTradePerPosition ==
    /\ Len(trades) <= Len(opens)
    /\ \A k \in 1..Len(trades) : PositionOf(trades[k]) = opens[k]
    /\ pc = "done" => Len(trades) = Len(opens)

\* C6 witness: the run ended after two positions, the second one still open
\* when the bars ran out.
C6_Witness ==
    /\ pc = "done" /\ Len(opens) = 2 /\ Len(trades) = 2
    /\ LastTrade.reason = "end_of_data"

\* C7: a position still open after the last bar is closed at the last bar's
\* close and timestamp with reason end_of_data and its P&L is added to
\* equity; an end_of_data trade is the last of the ledger, exists only once
\* the loop is over, and only when a position was left open.
C7_EndOfData ==
    /\ (pc = "done" /\ position # None) =>
         /\ PositionOf(LastTrade) = position
         /\ LastTrade.exit_price = row.close
         /\ LastTrade.exit_time = row.name
         /\ LastTrade.reason = "end_of_data"
         /\ equity = initial_equity + PnlUpTo(Len(trades) - 1) + LastTrade.pnl
    /\ \A k \in 1..Len(trades) :
         trades[k].reason = "end_of_data" =>
           k = Len(trades) /\ pc = "done" /\ position # None

\* C7 witness: the position was opened on the last bar itself and closed at
\* that bar's close, off its open.
C7_Witness ==
    /\ pc = "done" /\ position # None
    /\ position.entry_time = row.name
    /\ LastTrade.reason = "end_of_data"
    /\ LastTrade.pnl # 0

\* equity and daily P&L at the start of the bar just processed, after the
\* daily reset
EquityAtStart == IF ClosedNow THEN equity - LastTrade.pnl ELSE equity
DailyPnlAtStart == IF ClosedNow THEN daily_pnl - LastTrade.pnl ELSE daily_pnl

\* C8: can_open is daily P&L > -daily_loss_limit_pct * equity at the start
\* of the bar (after the daily reset); a position opens on a bar only when
\* that holds, whatever the signal.
C8_DailyLossLimit ==
    InLoop =>
      /\ can_open <=> (100 * DailyPnlAtStart > -(15 * EquityAtStart))
      /\ OpenedNow => 100 * DailyPnlAtStart > -(15 * EquityAtStart)
      /\ (100 * DailyPnlAtStart <= -(15 * EquityAtStart)) =>
           /\ ~OpenedNow
           /\ held = None => position = None

\* C8 witness: a bar with an entry signal and no position held opened
\* nothing, the daily loss being at the limit.
C8_Witness ==
    /\ InLoop /\ held = None /\ row.signal # 0
    /\ 100 * daily_pnl <= -(15 * equity)
    /\ position = None

\* the P&L of the trades closed by an exit rule on bars of calendar day d
RECURSIVE DayPnl(_, _)
DayPnl(d, k) ==
    IF k = 0 THEN 0
    ELSE (IF Date(trades[k].exit_time) = d /\ trades[k].reason # "end_of_data"
          THEN trades[k].pnl ELSE 0) + DayPnl(d, k - 1)

\* C9: the date marker is the date of the last row read, so daily P&L is
\* reset on a bar exactly when its date differs from the date of the bar
\* before it; daily P&L is the sum of the P&L of the trades closed by an
\* exit rule on bars of the current calendar date.
C9_DailyReset ==
    (pc \in {"loop", "done"}) =>
      /\ daily_start = Date(row.name)
      /\ daily_pnl = DayPnl(daily_start, Len(trades))

\* C9 witness: the first bar of a new day, read after a day with a loss.
C9_Witness ==
    /\ InLoop /\ daily_pnl = 0
    /\ Len(trades) > 0 /\ LastTrade.pnl < 0
    /\ Date(LastTrade.exit_time) < daily_start

\* C10 as stated: on an empty bar sequence run_backtest ends normally with
\* no trade, final equity equal to initial equity, and win rate and profit
\* factor undefined.
C10_EmptyFrame ==
    (n = 0 /\ pc # "start") =>
      /\ pc = "done"
      /\ trades = <<>>
      /\ equity = initial_equity
      /\ summary.win_rate = NaN
      /\ summary.profit_factor = NaN

\* The loop has been left and the summary code has run.
AfterLoop == n > 0 /\ pc \in {"done", "fault"}

\* The trades of the ledger with a gain and those with a true loss.
Winners == SelectSeq(trades, LAMBDA t : t.pnl > 0)
Losers == SelectSeq(trades, LAMBDA t : t.pnl < 0)

\* C11 as stated: the metrics are computed for every ledger; the win rate is
\* undefined exactly for the empty ledger and is otherwise the number of
\* trades with P&L > 0 over the number of trades; the profit factor is
\* undefined whenever no trade of the ledger has lost (a trade with P&L
\* exactly 0 has not), and is otherwise the sum of the gains over the
\* absolute sum of the losses; no ledger gives an infinite ratio or a ratio
\* with a zero divisor.
C11_AsStated ==
    AfterLoop =>
      /\ summary # KeyError
      /\ (summary.win_rate = NaN) <=> (trades = <<>>)
      /\ trades # <<>> =>
           summary.win_rate = [num |-> Len(Winners), den |-> Len(trades)]
      /\ Len(Losers) = 0 => summary.profit_factor = NaN
      /\ Len(Losers) > 0 =>
           summary.profit_factor =
             [num |-> SumPnl(Winners), den |-> Abs(SumPnl(Losers))]
      /\ summary.profit_factor # NegInf

\* C11, the part the empty ledger does not reach: whenever the summary is
\* computed, a ledger without a losing trade has an undefined profit factor.
C11_ZeroPnlLedger ==
    pc = "done" => (Len(Losers) = 0 => summary.profit_factor = NaN)

\* C16 as stated: every trade's reason is one of stop, target,
\* technical_exit, session_close, end_of_data; a trade closed by the target
\* rule is recorded with the reason target.
C16_AsStated ==
    /\ \A k \in 1..Len(trades) :
         trades[k].reason \in {"stop", "target", "technical_exit",
                               "session_close", "end_of_data"}
    /\ (ClosedNow /\ ~StopCond(held, row) /\ TargetCond(held, row)) =>
         LastTrade.reason = "target"

\* C16 amended: every trade's reason is one of stop, tp, technical_exit,
\* session_close, end_of_data and names the rule that closed the trade: a
\* trade appended on a bar carries the label of a rule whose condition holds
\* on that bar, a trade closed by the target rule carries tp, and
\* end_of_data is carried by the forced close after the loop and by no
\* other trade.
C16_Reasons ==
    /\ \A k \in 1..Len(trades) :
         /\ trades[k].reason \in {"stop", "tp", "technical_exit",
                                  "session_close", "end_of_data"}
         /\ trades[k].reason = "end_of_data" <=>
              (pc = "done" /\ position # None /\ k = Len(trades))
    /\ ClosedNow =>
         /\ LastTrade.reason = "stop" => StopCond(held, row)
         /\ LastTrade.reason = "tp" => TargetCond(held, row)
         /\ LastTrade.reason = "technical_exit" => TechCond(held, row)
         /\ LastTrade.reason = "session_close" => SessionCond(row, prev)
         /\ (~StopCond(held, row) /\ TargetCond(held, row)) =>
              LastTrade.reason = "tp"

\* C16 witness: a ledger with a trade closed by the target rule followed by
\* the forced close of the position opened after it.
C16_Witness ==
    /\ pc = "done" /\ Len(trades) = 2
    /\ trades[1].reason = "tp"
    /\ trades[1].exit_price = trades[1].tp
    /\ trades[2].reason = "end_of_data"

\* C17: a bar on which an exit rule closes the position opens no position,
\* whatever its signal and can_open: after such a bar no position is held and
\* as many positions were created as trades recorded. Of two consecutive
\* trades the later was entered strictly after the earlier was exited, the
\* ledger is ordered by exit time, and a held position was entered strictly
\* after the last trade was exited.
C17_CloseEndsBar ==
    /\ (InLoop /\ Len(trades) > 0 /\ LastTrade.exit_time = row.name) =>
         /\ position = None
         /\ Len(opens) = Len(trades)
    /\ \A k \in 1..(Len(trades) - 1) :
         /\ trades[k + 1].entry_time > trades[k].exit_time
         /\ trades[k + 1].exit_time >= trades[k].exit_time
    /\ (pc = "loop" /\ position # None /\ Len(trades) > 0) =>
         position.entry_time > LastTrade.exit_time

\* C17 witness: a position was closed on a bar that carries an entry signal
\* while can_open is true, and none is held after the bar.
C17_Witness ==
    /\ ClosedNow /\ LastTrade.exit_time = row.name
    /\ row.signal # 0 /\ can_open
    /\ position = None

\* C19: after any bar whose in-session flag is false has been processed, no
\* position is open; every position is entered on an in-session bar.
C19_FlatOutsideSession ==
    /\ (pc \in {"loop", "done"} /\ ~row.in_ny) => position = None
    /\ \A k \in 1..Len(opens) : InNy(opens[k].entry_time)

\* C19 witness: a position held through an in-session bar met its first
\* out-of-session bar with no stop, target or technical exit and was closed
\* there by the session rule.
C19_Witness ==
    /\ ClosedNow /\ ~row.in_ny /\ prev.in_ny
    /\ LastTrade.reason = "session_close"
    /\ LastTrade.exit_time = row.name
    /\ position = None

\* C20, the states: after the first bar has been read and before another is,
\* no position has been created; a position created on a bar is still held
\* after it and no trade carries the bar's timestamp as exit time; every
\* trade with a reason other than end_of_data was exited strictly after it
\* was entered.
C20_States ==
    /\ (pc = "loop" /\ i = 1) => (position = None /\ opens = <<>>)
    /\ OpenedNow => (position = Entry(row) /\ ClosedAt(row.name) = {})
    /\ \A k \in 1..Len(trades) :
         trades[k].reason # "end_of_data" =>
           trades[k].exit_time > trades[k].entry_time

\* C20, the steps: a position is created only by an iteration of the loop,
\* on a row that comes after a row read before it (so never on the first
\* row of the frame), with that row's timestamp as entry time, and that
\* iteration appends no trade.
C20_Steps ==
    opens' # opens =>
      /\ pc = "loop" /\ row # NoRow
      /\ row'.name > row.name
      /\ opens' = Append(opens, Entry(row'))
      /\ Entry(row').entry_time = row'.name
      /\ trades' = trades

\* C20: the exit rules are not applied to a position on the bar on which it
\* was opened, and no position is opened on the first bar: the entry bar's
\* own low or high reaching the new stop or target does not close the
\* position, every trade with a reason other than end_of_data has an exit
\* time strictly later than its entry time, and no trade has the first
\* bar's timestamp as entry time.
C20_NoExitOnEntryBar == [](C20_States) /\ [][C20_Steps]_vars

\* C20 witness: the low of the entry bar is at or below the stop of the LONG
\* opened on it, its high at or above the target, and the position is held.
C20_Witness ==
    /\ OpenedNow /\ position.side = "LONG"
    /\ StopCond(position, row) /\ TargetCond(position, row)
    /\ position.stop < position.entry_price
    /\ ClosedAt(row.name) = {}

\* C18, one step of the loop from the row read before (row) to the row read
\* now (row'): a flag of the new row is raised only if the close was not on
\* that side of ema9, or the histogram not of that sign, on the row before;
\* a trade appended with the reason technical_exit has such a crossing
\* against its side.
C18_Steps ==
    (pc = "loop" /\ pc' = "loop" /\ row' # row) =>
      LET crossLong == row'.close < row'.ema9 /\ ~(row.close < row.ema9)
          crossShort == row'.close > row'.ema9 /\ ~(row.close > row.ema9)
          turnLong == row'.macd_hist < 0 /\ ~(row.macd_hist < 0)
          turnShort == row'.macd_hist > 0 /\ ~(row.macd_hist > 0)
          t == trades'[Len(trades')]
      IN /\ row'.ema9_break_long => crossLong
         /\ row'.ema9_break_short => crossShort
         /\ row'.macd_flip_long => turnLong
         /\ row'.macd_flip_short => turnShort
         /\ (trades' # trades /\ t.reason = "technical_exit") =>
              IF t.side = "LONG" THEN crossLong \/ turnLong
              ELSE crossShort \/ turnShort

\* C18 as stated: the exit-trigger flags are crossing events, raised on a bar
\* only when the close moved to the wrong side of ema9, or the histogram's
\* sign turned unfavourable, on that bar; no position is closed with
\* technical_exit on a bar where close and histogram stay on the side they
\* were on the bar before.
C18_AsStated == [][C18_Steps]_vars

\* C12: the signal of a bar is +1 exactly when its seven long filters all
\* hold, -1 exactly when its seven short filters all hold, and 0 otherwise;
\* the long and the short setup are never both true, so the order in which
\* the two assignments are made changes no signal.
C12_SignalFromFilters ==
    sig.computed =>
      LET o == sig.out
          long7 == o.in_ny /\ o.htf_bull /\ o.ema_long_stack /\ o.vwap_long
                   /\ o.vol_ok /\ o.macd_rising /\ o.pullback_to_ema
          short7 == o.in_ny /\ o.htf_bear /\ o.ema_short_stack /\ o.vwap_short
                    /\ o.vol_ok /\ o.macd_falling /\ o.pullback_to_ema
      IN /\ (o.signal = 1) <=> long7
         /\ (o.signal = -1) <=> short7
         /\ (o.signal = 0) <=> (~long7 /\ ~short7)
         /\ o.signal \in {-1, 0, 1}
         /\ ~(o.long_setup /\ o.short_setup)
         /\ ~(long7 /\ short7)

\* C12 witness: a bar on which all seven short filters hold and six of the
\* seven long filters do not, with signal -1.
C12_Witness ==
    /\ sig.computed
    /\ sig.out.short_setup /\ sig.out.signal = -1
    /\ sig.out.pullback_to_ema /\ sig.out.vol_ok /\ sig.out.in_ny
    /\ ~sig.out.htf_bull /\ ~sig.out.ema_long_stack /\ ~sig.out.macd_rising

\* C12 second case: a bar on which all seven long filters hold, signal +1.
C12_LongCase == sig.computed /\ sig.out.long_setup /\ sig.out.signal = 1

Min(a, b) == IF a <= b THEN a ELSE b
Max(a, b) == IF a >= b THEN a ELSE b

\* C13 as stated: the pullback filter of a bar is true exactly when the
\* close lies between ema9 and ema21, bounds included and in either order,
\* or is within 1.5 ATR of ema21; so it is true on a bar with ema9 < ema21
\* and ema9 <= close <= ema21 whose close is more than 1.5 ATR from ema21.
C13_AsStated ==
    sig.computed =>
      LET b == sig.in
      IN sig.out.pullback_to_ema <=>
           \/ (Min(b.ema9, b.ema21) <= b.close /\ b.close <= Max(b.ema9, b.ema21))
           \/ PullbackDen * Abs(b.close - b.ema21) <= PullbackNum * b.atr

\* C15, the part about entries: on a frame whose bars all have a volume
\* equal to their rolling average, vol_ok is false and the signal 0 on
\* every bar, no position is opened, nothing is recorded and the equity
\* stays the initial equity.
C15_NoEntry ==
    /\ sig.computed =>
         (sig.in.volume = sig.in.vol_sma =>
            (~sig.out.vol_ok /\ sig.out.signal = 0))
    /\ pc \in {"loop", "done", "fault"} =>
         /\ row.signal = 0
         /\ position = None /\ opens = <<>>
         /\ trades = <<>> /\ equity = initial_equity

\* C15 as stated: on such a frame run_backtest opens no position and
\* produces an empty ledger with final equity equal to initial equity.
C15_AsStated ==
    /\ C15_NoEntry
    /\ (pc # "loop" /\ pc # "start") =>
         (pc = "done" /\ summary.computed /\ trades = <<>>)

\* equality of two fractions whose denominators are powers of one number
SameFraction(a, b) ==
    IF a.den <= b.den THEN a.num * (b.den \div a.den) = b.num
    ELSE b.num * (a.den \div b.den) = a.num

\* C14 as stated: the HTF EMA200 attached to a base bar is the EMA
\* recurrence (seeded with the first value, alpha = 2 / (span + 1)) run over
\* the last closes of the buckets up to the bar's bucket.
C14_AsStated ==
    sig.computed =>
      \A k \in 1..Len(sig.in) : \A j \in 1..Len(sig.in[k]) :
        SameFraction(sig.out[k][j], Ema(HtfLast(sig.in), Ema200Span, k))

====
